---------------------------- MODULE Spec2Model ----------------------------
(***************************************************************************)
(* point_tracker: target frame, target quaternion and the simulation loop. *)
(*                                                                         *)
(* Numbers.  The program computes in IEEE doubles.  The model computes in  *)
(* exact arithmetic carried to second order in the guard constant          *)
(* eps = 1e-9 of target_frame: a finite number is                          *)
(*        sqrt(rad) * eps^e * (p0 + p1*eps) / q                            *)
(* with rad a square-free positive integer, p0 # 0 unless the number is    *)
(* zero, q > 0 and gcd(p0, p1, q) = 1.  The relative error of one          *)
(* operation is of order eps^2 = 1e-18, below the 2^-53 of a double.  The  *)
(* IEEE values NaN and +-Inf that numpy produces on division by zero are   *)
(* values of the model as well (numpy warns and goes on; it raises         *)
(* nothing).  A sum of two numbers with different radicals has no such     *)
(* form and is the value Unrep; the inputs are drawn from sets on which it *)
(* never arises (NoUnrep).                                                 *)
(***************************************************************************)
EXTENDS Integers, Sequences, FiniteSets, TLC

---------------------------------------------------------------------------
(* Integer helpers.                                                        *)

Abs(x) == IF x < 0 THEN -x ELSE x

Sgn(x) == IF x < 0 THEN -1 ELSE IF x > 0 THEN 1 ELSE 0

RECURSIVE Gcd(_, _)
Gcd(a, b) == IF b = 0 THEN a ELSE Gcd(b, a % b)

\* The largest s with s*s dividing n (n > 0), by trial division from d.
RECURSIVE SquarePart(_, _, _)
SquarePart(n, s, d) ==
    IF d * d > n THEN s
    ELSE IF n % (d * d) = 0 THEN SquarePart(n \div (d * d), s * d, d)
    ELSE SquarePart(n, s, d + 1)

SqRoot(n) == SquarePart(n, 1, 2)

SqFree(n) == n \div (SqRoot(n) * SqRoot(n))

---------------------------------------------------------------------------
(* The numbers.                                                            *)

NaN == [k |-> "nan"]

Unrep == [k |-> "unrep"]

Inf(s) == [k |-> "inf", s |-> s]

Zero == [k |-> "fin", rad |-> 1, e |-> 0, p0 |-> 0, p1 |-> 0, q |-> 1]

\* The canonical form of sqrt(rad) * eps^e * (p0 + p1*eps) / q, q > 0.
Mk(rad, e, p0, p1, q) ==
    IF p0 = 0 /\ p1 = 0 THEN Zero
    ELSE LET l0 == IF p0 = 0 THEN p1 ELSE p0
             l1 == IF p0 = 0 THEN 0 ELSE p1
             le == IF p0 = 0 THEN e + 1 ELSE e
             g  == Gcd(Gcd(Abs(l0), Abs(l1)), q)
         IN [k |-> "fin", rad |-> rad, e |-> le,
             p0 |-> l0 \div g, p1 |-> l1 \div g, q |-> q \div g]

\* The rational p/q, q # 0.
Rat(p, q) == IF q < 0 THEN Mk(1, 0, -p, 0, -q) ELSE Mk(1, 0, p, 0, q)

Int2Num(n) == Rat(n, 1)

One == Int2Num(1)

\* k * eps, the guard constant being 1 * eps.
EpsTimes(k) == Mk(1, 1, k, 0, 1)

IsFin(a) == a.k = "fin"

IsZero(a) == a.k = "fin" /\ a.p0 = 0

\* np.isfinite
IsFinite(a) == a.k = "fin"

\* np.sign: -1, 0, 1, and NaN for NaN.
Sign(a) ==
    CASE a.k = "nan"   -> NaN
      [] a.k = "unrep" -> Unrep
      [] a.k = "inf"   -> Int2Num(a.s)
      [] OTHER         -> Int2Num(Sgn(a.p0))

Neg(a) ==
    CASE a.k = "fin" -> [a EXCEPT !.p0 = -a.p0, !.p1 = -a.p1]
      [] a.k = "inf" -> Inf(-a.s)
      [] OTHER       -> a

AbsNum(a) == IF a.k = "fin" /\ a.p0 < 0 THEN Neg(a)
             ELSE IF a.k = "inf" THEN Inf(1) ELSE a

Mul(a, b) ==
    CASE a.k = "unrep" \/ b.k = "unrep" -> Unrep
      [] a.k = "nan" \/ b.k = "nan" -> NaN
      [] a.k = "inf" /\ b.k = "inf" -> Inf(a.s * b.s)
      [] a.k = "inf" -> IF IsZero(b) THEN NaN ELSE Inf(a.s * Sgn(b.p0))
      [] b.k = "inf" -> IF IsZero(a) THEN NaN ELSE Inf(b.s * Sgn(a.p0))
      [] OTHER ->
           IF IsZero(a) \/ IsZero(b) THEN Zero
           ELSE LET g  == Gcd(a.rad, b.rad)
                    \* reduce crosswise before multiplying
                    ga == Gcd(Gcd(Abs(a.p0), Abs(a.p1)), b.q)
                    gb == Gcd(Gcd(Abs(b.p0), Abs(b.p1)), a.q)
                    a0 == a.p0 \div ga
                    a1 == a.p1 \div ga
                    b0 == b.p0 \div gb
                    b1 == b.p1 \div gb
                    aq == a.q \div gb
                    bq == b.q \div ga
                IN Mk((a.rad \div g) * (b.rad \div g), a.e + b.e,
                      a0 * b0 * g, (a0 * b1 + a1 * b0) * g, aq * bq)

\* 1/a for a finite and not zero:
\*   1/sqrt(rad) = sqrt(rad)/rad,  q/(p0 + p1 eps) = q (p0 - p1 eps)/p0^2.
Recip(a) ==
    Mk(a.rad, -a.e, a.q * a.p0, -(a.q * a.p1), a.rad * a.p0 * a.p0)

Div(a, b) ==
    CASE a.k = "unrep" \/ b.k = "unrep" -> Unrep
      [] a.k = "nan" \/ b.k = "nan" -> NaN
      [] a.k = "inf" /\ b.k = "inf" -> NaN
      [] a.k = "inf" -> Inf(a.s * (IF b.p0 < 0 THEN -1 ELSE 1))
      [] b.k = "inf" -> Zero
      [] IsZero(b) -> IF IsZero(a) THEN NaN ELSE Inf(Sgn(a.p0))
      [] OTHER -> Mul(a, Recip(b))

Add(a, b) ==
    CASE a.k = "unrep" \/ b.k = "unrep" -> Unrep
      [] a.k = "nan" \/ b.k = "nan" -> NaN
      [] a.k = "inf" /\ b.k = "inf" -> IF a.s = b.s THEN a ELSE NaN
      [] a.k = "inf" -> a
      [] b.k = "inf" -> b
      [] IsZero(a) -> b
      [] IsZero(b) -> a
      [] a.rad # b.rad -> Unrep
      [] OTHER ->
           LET g  == Gcd(a.q, b.q)
               ma == b.q \div g
               mb == a.q \div g
               q  == ma * a.q
           IN CASE a.e = b.e ->
                     Mk(a.rad, a.e, a.p0 * ma + b.p0 * mb,
                        a.p1 * ma + b.p1 * mb, q)
                [] b.e = a.e + 1 ->
                     Mk(a.rad, a.e, a.p0 * ma, a.p1 * ma + b.p0 * mb, q)
                [] a.e = b.e + 1 ->
                     Mk(a.rad, b.e, b.p0 * mb, b.p1 * mb + a.p0 * ma, q)
                [] b.e > a.e + 1 -> a
                [] OTHER -> b

Sub(a, b) == Add(a, Neg(b))

\* np.sqrt: NaN for a negative number.  A finite positive number must be
\* free of a radical and of an odd power of eps; then
\*   sqrt((p0 + p1 eps)/q) = sqrt(p0/q) * (2 p0 + p1 eps) / (2 p0).
Sqrt(a) ==
    CASE a.k = "unrep" -> Unrep
      [] a.k = "nan" -> NaN
      [] a.k = "inf" -> IF a.s > 0 THEN a ELSE NaN
      [] IsZero(a) -> Zero
      [] a.p0 < 0 -> NaN
      [] a.rad # 1 \/ a.e % 2 # 0 -> Unrep
      [] OTHER ->
           LET s == SqRoot(a.p0)
               r == a.p0 \div (s * s)
               t == SqRoot(a.q)
               u == a.q \div (t * t)
               g == Gcd(r, u)
               h == Gcd(s * g, 2 * a.p0 * t * u)
           IN Mk((r \div g) * (u \div g), a.e \div 2,
                 2 * a.p0 * ((s * g) \div h), a.p1 * ((s * g) \div h),
                 (2 * a.p0 * t * u) \div h)

\* The sign of a - b for a and b finite or infinite.  Numbers with
\* different radicals are compared by their signs and their squares.
CmpNum(a, b) ==
    CASE a.k = "inf" /\ b.k = "inf" -> Sgn(a.s - b.s)
      [] a.k = "inf" -> a.s
      [] b.k = "inf" -> -b.s
      [] IsZero(a) \/ IsZero(b) \/ a.rad = b.rad -> Sgn(Sub(a, b).p0)
      [] OTHER ->
           IF Sgn(a.p0) # Sgn(b.p0) THEN Sgn(Sgn(a.p0) - Sgn(b.p0))
           ELSE Sgn(a.p0) * Sgn(Sub(Mul(a, a), Mul(b, b)).p0)

Ordered(a, b) == a.k \in {"fin", "inf"} /\ b.k \in {"fin", "inf"}

\* a < b and a <= b; NaN compares false with everything, as in IEEE.
Less(a, b) == Ordered(a, b) /\ CmpNum(a, b) < 0

LessEq(a, b) == Ordered(a, b) /\ CmpNum(a, b) <= 0

---------------------------------------------------------------------------
(* Vectors and matrices: a vector is a sequence of numbers, a matrix a     *)
(* sequence of rows.  At(v, i) is v[i] of the source, whose indices start  *)
(* at 0.                                                                   *)

At(v, i) == v[i + 1]

VecOfInts(t) == [i \in 1..Len(t) |-> Int2Num(t[i])]

\* t / den, componentwise, for a tuple of integers t
VecOfRats(t, den) == [i \in 1..Len(t) |-> Rat(t[i], den)]

VSub(u, v) == [i \in 1..Len(u) |-> Sub(u[i], v[i])]

VScale(c, v) == [i \in 1..Len(v) |-> Mul(c, v[i])]

VDivide(v, c) == [i \in 1..Len(v) |-> Div(v[i], c)]

RECURSIVE SumTo(_, _)
SumTo(t, n) == IF n = 0 THEN Zero ELSE Add(SumTo(t, n - 1), t[n])

\* np.dot of two vectors
Dot(u, v) == SumTo([i \in 1..Len(u) |-> Mul(u[i], v[i])], Len(u))

\* np.linalg.norm of a vector
Norm(v) == Sqrt(Dot(v, v))

\* v / np.linalg.norm(v)
Normalized(v) == VDivide(v, Norm(v))

\* np.cross of two 3-vectors
Cross(u, v) ==
    << Sub(Mul(At(u, 1), At(v, 2)), Mul(At(u, 2), At(v, 1))),
       Sub(Mul(At(u, 2), At(v, 0)), Mul(At(u, 0), At(v, 2))),
       Sub(Mul(At(u, 0), At(v, 1)), Mul(At(u, 1), At(v, 0))) >>

\* np.linalg.det of a 3x3 matrix
Det(m) == Dot(m[1], Cross(m[2], m[3]))

\* m[[1, 0, 2]]: a copy of m with its first two rows exchanged
Reorder102(m) == << At(m, 1), At(m, 0), At(m, 2) >>

---------------------------------------------------------------------------
(* src/frames.py                                                           *)

\* eps = 1e-9
eps == EpsTimes(1)

\* The inner loop of gram_schmidt, j = from .. i-1:
\*   q = q - np.dot(matrix[j, :], matrix[i, :]) * matrix[j, :]
RECURSIVE GsProject(_, _, _, _)
GsProject(matrix, i, from, q) ==
    IF from >= i THEN q
    ELSE GsProject(matrix, i, from + 1,
                   VSub(q, VScale(Dot(At(matrix, from), At(matrix, i)),
                                  At(matrix, from))))

\* q / np.sqrt(np.dot(q, q))
GsUnit(q) == VDivide(q, Sqrt(Dot(q, q)))

\* The largest r with r * r <= n, counting up from r.
RECURSIVE ISqrt(_, _)
ISqrt(n, r) == IF (r + 1) * (r + 1) > n THEN r ELSE ISqrt(n, r + 1)

\* The cast of a double to int64: the fraction is dropped, towards zero.
\* The cast of nan and of inf is undefined and stands as Unrep.
Trunc(a) ==
    CASE a.k # "fin" -> Unrep
      [] a.e > 0 -> Zero
      [] a.e < 0 -> Unrep
      [] a.rad = 1 ->
           LET t == Abs(a.p0) \div a.q
               below == Abs(a.p0) % a.q = 0 /\ Sgn(a.p1) = -Sgn(a.p0)
           IN Int2Num(Sgn(a.p0) * (IF below THEN t - 1 ELSE t))
      [] OTHER ->
           Int2Num(Sgn(a.p0) * ISqrt((a.rad * a.p0 * a.p0) \div (a.q * a.q), 0))

\* matrix[i, :] = q: the row takes the values of q in the dtype of the
\* matrix.
GsStore(dtype, q) ==
    IF dtype = "int64" THEN [c \in 1..Len(q) |-> Trunc(q[c])] ELSE q

\* One pass of the outer loop of gram_schmidt: row i is replaced, in the
\* matrix itself, by the normalised q.
GsRow(dtype, matrix, i) ==
    [matrix EXCEPT
       ![i + 1] = GsStore(dtype, GsUnit(GsProject(matrix, i, 0, At(matrix, i))))]

RECURSIVE GsLoop(_, _, _)
GsLoop(dtype, matrix, i) ==
    IF i >= Len(matrix) THEN matrix
    ELSE GsLoop(dtype, GsRow(dtype, matrix, i), i + 1)

\* gram_schmidt on an array of doubles, as target_frame calls it
gram_schmidt(matrix) == GsLoop("float64", matrix, 0)

\* gram_schmidt on an array a of either dtype: the rows of a after the
\* loop, which are also what is returned.
gram_schmidt_array(a) == [a EXCEPT !.rows = GsLoop(a.dtype, a.rows, 0)]

\* y = np.array(r_sat) - np.array(r_target); y /= np.linalg.norm(y)
tf_y(r_sat, r_target) == Normalized(VSub(r_sat, r_target))

\* The coefficients of the plane a*Zx + b*Zy + c*Zz = 0.
tf_a(y, orbit_normal) ==
    Sub(Mul(At(y, 2), At(orbit_normal, 1)), Mul(At(y, 1), At(orbit_normal, 2)))

tf_b(y, orbit_normal) ==
    Sub(Mul(At(y, 0), At(orbit_normal, 2)), Mul(At(y, 2), At(orbit_normal, 0)))

tf_c(y, orbit_normal) ==
    Sub(Mul(At(y, 1), At(orbit_normal, 0)), Mul(At(y, 0), At(orbit_normal, 1)))

\* a * y[1] - b * y[0], the denominator of d, of e and of z[1]
tf_den(y, orbit_normal) ==
    Sub(Mul(tf_a(y, orbit_normal), At(y, 1)),
        Mul(tf_b(y, orbit_normal), At(y, 0)))

\* a + eps, the denominator of z[0]
tf_aeps(y, orbit_normal) == Add(tf_a(y, orbit_normal), eps)

\* d and e of z[0] = d * z[2], z[1] = e * z[2]
tf_d(y, orbit_normal) ==
    Div(Sub(Mul(tf_b(y, orbit_normal), At(y, 2)),
            Mul(tf_c(y, orbit_normal), At(y, 1))),
        tf_den(y, orbit_normal))

tf_e(y, orbit_normal) ==
    Div(Sub(Mul(tf_c(y, orbit_normal), At(y, 0)),
            Mul(tf_a(y, orbit_normal), At(y, 2))),
        tf_den(y, orbit_normal))

\* sgn = -np.sign(d * orbit_normal[0] + e * orbit_normal[1] + orbit_normal[2])
tf_sgn(d, e, orbit_normal) ==
    Neg(Sign(Add(Add(Mul(d, At(orbit_normal, 0)), Mul(e, At(orbit_normal, 1))),
                 At(orbit_normal, 2))))

\* z[2] = sgn * np.sqrt(1 / (1 + d ** 2 + e ** 2))
tf_z2(d, e, orbit_normal) ==
    Mul(tf_sgn(d, e, orbit_normal),
        Sqrt(Div(One, Add(Add(One, Mul(d, d)), Mul(e, e)))))

\* z[1] = (c * y[0] - a * y[2]) / (a * y[1] - b * y[0]) * z[2]
tf_z1(y, orbit_normal, z2) == Mul(tf_e(y, orbit_normal), z2)

\* z[0] = -(b * z[1] + c * z[2]) / (a + eps)
tf_z0(y, orbit_normal, z1, z2) ==
    Div(Neg(Add(Mul(tf_b(y, orbit_normal), z1), Mul(tf_c(y, orbit_normal), z2))),
        tf_aeps(y, orbit_normal))

\* The axis Z: z = np.zeros(3) ... z /= np.linalg.norm(z)
tf_z(y, orbit_normal) ==
    LET FromZ12(z1, z2) ==
            Normalized(<< tf_z0(y, orbit_normal, z1, z2), z1, z2 >>)
        FromZ2(z2) == FromZ12(tf_z1(y, orbit_normal, z2), z2)
    IN FromZ2(tf_z2(tf_d(y, orbit_normal), tf_e(y, orbit_normal), orbit_normal))

\* The axis X: x = np.cross(y, z); x /= np.linalg.norm(x)
tf_x(y, z) == Normalized(Cross(y, z))

\* frame = np.vstack((x, y, z))
tf_axes(r_sat, r_target, orbit_normal) ==
    LET FromYZ(y, z) == << tf_x(y, z), y, z >>
        FromY(y) == FromYZ(y, tf_z(y, orbit_normal))
    IN FromY(tf_y(r_sat, r_target))

\* target_frame without "frame = frame[[1, 0, 2]]" after gram_schmidt: the
\* rows come back in the order Y, X, Z.
target_frame_unrestored(r_sat, r_target, orbit_normal) ==
    gram_schmidt(Reorder102(tf_axes(r_sat, r_target, orbit_normal)))

\* target_frame raises nothing: numpy's division by zero warns and yields
\* NaN or Inf.
target_frame(r_sat, r_target, orbit_normal) ==
    Reorder102(gram_schmidt(Reorder102(tf_axes(r_sat, r_target, orbit_normal))))

---------------------------------------------------------------------------
(* src/simulation.py: target_quaternion.  Rotation.from_matrix and as_quat *)
(* are scipy's; the model follows scipy's conversion of a rotation matrix: *)
(* the largest of the three diagonal entries and the trace selects the     *)
(* component computed first, and the quaternion (x, y, z, w) is            *)
(* normalised.                                                             *)

Transpose(m) == [i \in 1..3 |-> [j \in 1..3 |-> m[j][i]]]

Entry(m, i, j) == At(At(m, i), j)

MatrixHas(m, v) == \E i \in 1..3 : \E j \in 1..3 : m[i][j].k = v

\* np.argmax over decision[0..n-1]: the first index of the largest entry.
RECURSIVE ArgMax(_, _, _)
ArgMax(decision, n, best) ==
    IF n >= Len(decision) THEN best
    ELSE ArgMax(decision, n + 1,
                IF Less(At(decision, best), At(decision, n)) THEN n ELSE best)

\* The quaternion before normalisation when a diagonal entry is the largest:
\* i is its index, j and k the indices that follow it cyclically.
quat_by_axis(matrix, trace, i, j, k) ==
    [n \in 1..4 |->
       IF n = i + 1
       THEN Add(Sub(One, trace), Mul(Int2Num(2), Entry(matrix, i, i)))
       ELSE IF n = j + 1 THEN Add(Entry(matrix, j, i), Entry(matrix, i, j))
       ELSE IF n = k + 1 THEN Add(Entry(matrix, k, i), Entry(matrix, i, k))
       ELSE Sub(Entry(matrix, k, j), Entry(matrix, j, k))]

\* The quaternion before normalisation when the trace is the largest.
quat_by_trace(matrix, trace) ==
    << Sub(Entry(matrix, 2, 1), Entry(matrix, 1, 2)),
       Sub(Entry(matrix, 0, 2), Entry(matrix, 2, 0)),
       Sub(Entry(matrix, 1, 0), Entry(matrix, 0, 1)),
       Add(One, trace) >>

\* Rotation.from_matrix(matrix).as_quat(): (x, y, z, w)
from_matrix_as_quat(matrix) ==
    LET FromChoice(trace, choice) ==
            IF choice # 3
            THEN quat_by_axis(matrix, trace, choice, (choice + 1) % 3,
                              (choice + 2) % 3)
            ELSE quat_by_trace(matrix, trace)
        FromTrace(trace) ==
            FromChoice(trace,
                       ArgMax(<< Entry(matrix, 0, 0), Entry(matrix, 1, 1),
                                 Entry(matrix, 2, 2), trace >>, 1, 0))
    IN IF MatrixHas(matrix, "unrep") THEN << Unrep, Unrep, Unrep, Unrep >>
       ELSE IF MatrixHas(matrix, "nan") THEN << NaN, NaN, NaN, NaN >>
       ELSE Normalized(FromTrace(Add(Add(Entry(matrix, 0, 0),
                                         Entry(matrix, 1, 1)),
                                     Entry(matrix, 2, 2))))

\* quat[[3, 0, 1, 2]]
Reorder3012(quat) == << At(quat, 3), At(quat, 0), At(quat, 1), At(quat, 2) >>

\* target_quaternion without the transposition of tf
target_quaternion_untransposed(tf) == Reorder3012(from_matrix_as_quat(tf))

\* Simulation.target_quaternion
target_quaternion(tf) == Reorder3012(from_matrix_as_quat(Transpose(tf)))

---------------------------------------------------------------------------
(* The times of run.  simulation_time and time_step are doubles, and the   *)
(* length of np.arange(0, simulation_time + time_step, time_step) is the   *)
(* ceiling of a quotient of doubles, so the roundings are computed here.   *)
(* A natural number beyond the range of the integers is the sequence of    *)
(* its digits to the base 2^LimbBits, least significant first; a double is *)
(* m * 2^e with m below 2^Mantissa.                                        *)

Mantissa == 53

LimbBits == 13

Base == 2 ^ LimbBits

RECURSIVE BigOf(_)
BigOf(n) == IF n = 0 THEN << >> ELSE << n % Base >> \o BigOf(n \div Base)

\* Without the leading zeros, which stand last.
RECURSIVE Trim(_)
Trim(a) ==
    IF a = << >> THEN a
    ELSE IF a[Len(a)] = 0 THEN Trim(SubSeq(a, 1, Len(a) - 1)) ELSE a

RECURSIVE AddCarry(_, _, _)
AddCarry(a, b, c) ==
    IF a = << >> /\ b = << >> THEN (IF c = 0 THEN << >> ELSE << c >>)
    ELSE IF a = << >> THEN AddCarry(<< 0 >>, b, c)
    ELSE IF b = << >> THEN AddCarry(a, << 0 >>, c)
    ELSE << (a[1] + b[1] + c) % Base >>
         \o AddCarry(Tail(a), Tail(b), (a[1] + b[1] + c) \div Base)

BigAdd(a, b) == Trim(AddCarry(a, b, 0))

\* a * s + c for a digit s and a carry c
RECURSIVE MulDigit(_, _, _)
MulDigit(a, s, c) ==
    IF a = << >> THEN BigOf(c)
    ELSE << (a[1] * s + c) % Base >>
         \o MulDigit(Tail(a), s, (a[1] * s + c) \div Base)

RECURSIVE BigMul(_, _)
BigMul(a, b) ==
    IF a = << >> \/ b = << >> THEN << >>
    ELSE BigAdd(Trim(MulDigit(b, a[1], 0)), << 0 >> \o BigMul(Tail(a), b))

\* a * 2^n
ShiftLeft(a, n) ==
    LET shifted == Trim(MulDigit(a, 2 ^ (n % LimbBits), 0))
    IN IF shifted = << >> THEN shifted
       ELSE [i \in 1..(n \div LimbBits) |-> 0] \o shifted

\* The sign of a - b, from digit i downwards, for a and b of one length.
RECURSIVE CmpFrom(_, _, _)
CmpFrom(a, b, i) ==
    IF i = 0 THEN 0
    ELSE IF a[i] # b[i] THEN Sgn(a[i] - b[i])
    ELSE CmpFrom(a, b, i - 1)

BigCmp(a, b) ==
    IF Len(a) # Len(b) THEN Sgn(Len(a) - Len(b)) ELSE CmpFrom(a, b, Len(a))

\* Quotient and remainder of a by the digit d.
RECURSIVE DivDigit(_, _)
DivDigit(a, d) ==
    IF a = << >> THEN [q |-> << >>, r |-> 0]
    ELSE LET Step(high) ==
                 [q |-> << (Base * high.r + a[1]) \div d >> \o high.q,
                  r |-> (Base * high.r + a[1]) % d]
         IN Step(DivDigit(Tail(a), d))

\* floor(a / 2^n)
ShiftRight(a, n) ==
    IF Len(a) <= n \div LimbBits THEN << >>
    ELSE Trim(DivDigit(SubSeq(a, n \div LimbBits + 1, Len(a)),
                       2 ^ (n % LimbBits)).q)

\* The number of binary digits of the integer n, and of a.
RECURSIVE IntBits(_)
IntBits(n) == IF n = 0 THEN 0 ELSE 1 + IntBits(n \div 2)

BitLength(a) ==
    IF a = << >> THEN 0 ELSE LimbBits * (Len(a) - 1) + IntBits(a[Len(a)])

IsOdd(a) == a # << >> /\ a[1] % 2 = 1

\* The double nearest to (n + f) * 2^e, ties to even, where 0 <= f < 1 and
\* inexact says that f > 0.  With drop digits dropped and kept the rest,
\* what is dropped is compared with half a unit of kept: 2 * n against
\* (2 * kept + 1) * 2^drop.
RoundToDouble(n, e, inexact) ==
    IF BitLength(n) <= Mantissa THEN [m |-> n, e |-> e]
    ELSE LET drop == BitLength(n) - Mantissa
             Round(kept, cmp) ==
                 IF cmp > 0 \/ (cmp = 0 /\ (inexact \/ IsOdd(kept)))
                 THEN BigAdd(kept, << 1 >>) ELSE kept
             FromKept(kept) ==
                 Round(kept,
                       BigCmp(ShiftLeft(n, 1),
                              ShiftLeft(BigAdd(ShiftLeft(kept, 1), << 1 >>),
                                        drop)))
         IN [m |-> FromKept(ShiftRight(n, drop)), e |-> e + drop]

\* The double a decimal literal k / den denotes (k >= 0, den a digit).
Precision == 60

Double(k, den) ==
    LET Rounded(qr) == RoundToDouble(Trim(qr.q), -Precision, qr.r # 0)
    IN Rounded(DivDigit(ShiftLeft(BigOf(k), Precision), den))

\* a + b of two doubles
DoubleAdd(a, b) ==
    IF a.e <= b.e
    THEN RoundToDouble(BigAdd(a.m, ShiftLeft(b.m, b.e - a.e)), a.e, FALSE)
    ELSE RoundToDouble(BigAdd(ShiftLeft(a.m, a.e - b.e), b.m), b.e, FALSE)

\* The sign of a - b for two doubles
DoubleCmp(a, b) ==
    IF a.e <= b.e THEN BigCmp(a.m, ShiftLeft(b.m, b.e - a.e))
    ELSE BigCmp(ShiftLeft(a.m, a.e - b.e), b.m)

\* The largest n with n * y <= x, counted up from n.
RECURSIVE FloorQuotient(_, _, _)
FloorQuotient(x, y, n) ==
    IF BigCmp(BigMul(BigOf(n + 1), y), x) <= 0
    THEN FloorQuotient(x, y, n + 1) ELSE n

\* ceil of the double x / y, for the naturals x and y > 0.  With n the
\* floor of the exact quotient, the double quotient is n when the exact one
\* is n, or lies no more than half a unit in the last place above n (n has
\* an even mantissa, so a tie goes to n); the ceiling is n + 1 otherwise.
CeilOfQuotient(x, y) ==
    LET FromFloor(n) ==
            IF BigCmp(BigMul(BigOf(n), y), x) = 0 THEN n
            ELSE IF n = 0 THEN 1
            ELSE IF BigCmp(ShiftLeft(x, Mantissa),
                           BigMul(y, BigAdd(ShiftLeft(BigOf(n), Mantissa),
                                            ShiftLeft(<< 1 >>,
                                                      IntBits(n) - 1))))
                    <= 0
                 THEN n
            ELSE n + 1
    IN FromFloor(FloorQuotient(x, y, 0))

\* np.arange(0, stop, step).size for doubles stop and step > 0:
\* ceil((stop - 0) / step)
arange_size(stop, step) ==
    IF stop.e <= step.e
    THEN CeilOfQuotient(stop.m, ShiftLeft(step.m, step.e - stop.e))
    ELSE CeilOfQuotient(ShiftLeft(stop.m, stop.e - step.e), step.m)

\* A time of run is held as the decimal k / den it is written as; the
\* program computes with the double of that decimal.
Decimal(k, den) == [k |-> k, den |-> den]

AsDouble(t) == Double(t.k, t.den)

\* The clock of the orbit counts TicksPerSecond ticks to the second.
TicksPerSecond == 10

Ticks(t) == t.k * (TicksPerSecond \div t.den)

---------------------------------------------------------------------------
(* orbit.py.  An epoch is the number of ticks since BASE_TIME.  An angle   *)
(* is known by its cosine and its sine.                                    *)

Angle(c, s) == [cos |-> c, sin |-> s]

MatVec(m, v) == << Dot(m[1], v), Dot(m[2], v), Dot(m[3], v) >>

MatMul(m, n) ==
    [i \in 1..3 |-> [j \in 1..3 |-> Dot(m[i], << n[1][j], n[2][j], n[3][j] >>)]]

\* _orbit_normal whose rot_x turns the other way (the signs of its two
\* sines exchanged)
orbit_normal_rot_x_transposed(raan, inc) ==
    LET rot_z == << << raan.cos, Neg(raan.sin), Zero >>,
                    << raan.sin, raan.cos, Zero >>,
                    << Zero, Zero, One >> >>
        rot_x == << << One, Zero, Zero >>,
                    << Zero, inc.cos, inc.sin >>,
                    << Zero, Neg(inc.sin), inc.cos >> >>
    IN MatVec(MatMul(rot_z, rot_x), << Zero, Zero, One >>)

\* _orbit_normal that multiplies rot_x @ rot_z
orbit_normal_rot_x_first(raan, inc) ==
    LET rot_z == << << raan.cos, Neg(raan.sin), Zero >>,
                    << raan.sin, raan.cos, Zero >>,
                    << Zero, Zero, One >> >>
        rot_x == << << One, Zero, Zero >>,
                    << Zero, inc.cos, Neg(inc.sin) >>,
                    << Zero, inc.sin, inc.cos >> >>
    IN MatVec(MatMul(rot_x, rot_z), << Zero, Zero, One >>)

\* Orbit._orbit_normal
orbit_normal(raan, inc) ==
    LET rot_z == << << raan.cos, Neg(raan.sin), Zero >>,
                    << raan.sin, raan.cos, Zero >>,
                    << Zero, Zero, One >> >>
        rot_x == << << One, Zero, Zero >>,
                    << Zero, inc.cos, Neg(inc.sin) >>,
                    << Zero, inc.sin, inc.cos >> >>
    IN MatVec(MatMul(rot_z, rot_x), << Zero, Zero, One >>)

\* The trajectory the propagator follows: the state vector at an epoch.  It
\* returns to its first point after Period units.
Period == 4

Ephemeris(epoch) ==
    LET ph == epoch % Period
    IN CASE ph = 0 -> [r |-> << 2, 0, 0 >>, v |-> << 0, 1, 0 >>]
         [] ph = 1 -> [r |-> << 0, 2, 0 >>, v |-> << -1, 0, 0 >>]
         [] ph = 2 -> [r |-> << 0, 2, 0 >>, v |-> << -3, 0, 4 >>]
         [] OTHER  -> [r |-> << 0, 0, 2 >>, v |-> << 0, -1, 0 >>]

\* r x v for integer vectors: the angular momentum of the state
CrossInts(r, v) ==
    << r[2] * v[3] - r[3] * v[2], r[3] * v[1] - r[1] * v[3],
       r[1] * v[2] - r[2] * v[1] >>

\* orb.inc of a state (r, v) with h = r x v # 0: the angle of h to the z
\* axis, between 0 and pi.
inc_of(r, v) ==
    LET h == CrossInts(r, v)
        hh == h[1] * h[1] + h[2] * h[2] + h[3] * h[3]
    IN Angle(Div(Int2Num(h[3]), Sqrt(Int2Num(hh))),
             Sqrt(Rat(h[1] * h[1] + h[2] * h[2], hh)))

\* orb.raan of a state (r, v): the direction of the node (-h[1], h[0], 0),
\* and 0 for an orbit in the equatorial plane.
raan_of(r, v) ==
    LET h == CrossInts(r, v)
        nn == h[1] * h[1] + h[2] * h[2]
    IN IF nn = 0 THEN Angle(One, Zero)
       ELSE Angle(Div(Int2Num(-h[2]), Sqrt(Int2Num(nn))),
                  Div(Int2Num(h[1]), Sqrt(Int2Num(nn))))

\* twobody.Orbit.from_vectors
from_vectors(r, v, epoch) ==
    [r |-> r, v |-> v, epoch |-> epoch,
     raan |-> raan_of(r, v), inc |-> inc_of(r, v)]

\* orb.propagate, with or without the J2 perturbation
propagate(orb, time_step, use_perturbation) ==
    LET epoch == orb.epoch + Ticks(time_step)
    IN from_vectors(Ephemeris(epoch).r, Ephemeris(epoch).v, epoch)

\* Orbit._set_state_vector followed by the refresh of the normal, as at the
\* end of Orbit.init and of Orbit.step
set_state_vector(orb) ==
    [orb |-> orb,
     x |-> Int2Num(orb.r[1]), y |-> Int2Num(orb.r[2]), z |-> Int2Num(orb.r[3]),
     vx |-> Int2Num(orb.v[1]), vy |-> Int2Num(orb.v[2]),
     vz |-> Int2Num(orb.v[3]),
     jd |-> Int2Num(orb.epoch), dt |-> orb.epoch,
     normal |-> orbit_normal(orb.raan, orb.inc)]

\* Orbit.init
OrbitInit(p) == set_state_vector(from_vectors(<< p.x, p.y, p.z >>,
                                              << p.vx, p.vy, p.vz >>,
                                              p.julian_day))

\* Orbit.step without the refresh of the normal
OrbitStep_keeping_normal(orbit, time_step, use_perturbation) ==
    [set_state_vector(propagate(orbit.orb, time_step, use_perturbation))
       EXCEPT !.normal = orbit.normal]

\* Orbit.step
OrbitStep(orbit, time_step, use_perturbation) ==
    set_state_vector(propagate(orbit.orb, time_step, use_perturbation))

---------------------------------------------------------------------------
(* frames.py: lla_to_eci.  The target turns with the Earth; where it is in *)
(* the inertial frame depends on the time.                                 *)

lla_to_eci(latitude, longitude, altitude, dt) ==
    LET ph == dt % Period
    IN CASE ph = 0 -> VecOfInts(<< 1, 0, 0 >>)
         [] ph = 1 -> VecOfInts(<< 0, 1, 0 >>)
         [] ph = 2 -> VecOfInts(<< 0, 1, 0 >>)
         [] OTHER  -> VecOfInts(<< 0, 0, 1 >>)

---------------------------------------------------------------------------
(* simulation.py and params.py.                                            *)

\* The target of config/params.yaml.
EarthTarget == [latitude |-> 0, longitude |-> 0, altitude |-> 0]

\* read_params: the initial state vector lies on the trajectory.
Params(julian_day) ==
    [earth_target |-> EarthTarget,
     satellite_initial_position_eci |->
        [x |-> Ephemeris(julian_day).r[1], y |-> Ephemeris(julian_day).r[2],
         z |-> Ephemeris(julian_day).r[3],
         vx |-> Ephemeris(julian_day).v[1], vy |-> Ephemeris(julian_day).v[2],
         vz |-> Ephemeris(julian_day).v[3],
         julian_day |-> julian_day]]

\* self.tf and self.quat before the first step
None == << >>

\* self.orbit before init_orbit
NoOrbit == [orb |-> None]

\* build_target_frame that keeps a frame once it has one
build_target_frame_cached(self) ==
    IF self.tf # None THEN self.tf
    ELSE target_frame(<< self.orbit.x, self.orbit.y, self.orbit.z >>,
                      lla_to_eci(self.params.earth_target.latitude,
                                 self.params.earth_target.longitude,
                                 self.params.earth_target.altitude,
                                 self.orbit.dt),
                      self.orbit.normal)

\* Simulation.build_target_frame
build_target_frame(self) ==
    LET r_target == lla_to_eci(self.params.earth_target.latitude,
                               self.params.earth_target.longitude,
                               self.params.earth_target.altitude,
                               self.orbit.dt)
    IN target_frame(<< self.orbit.x, self.orbit.y, self.orbit.z >>,
                    r_target, self.orbit.normal)

\* The names of the header line, as written.
HeaderNames ==
    << "jd", "x", "y", "z", "vx", "vy", "vx", "q0", "q1", "q2", "q3" >>

HeaderLine == [kind |-> "header", cells |-> HeaderNames]

\* A cell of a record line: the attribute that is formatted, and its value.
Cell(name, value) == [name |-> name, value |-> value]

\* Simulation.create_file_with_result: mode "w" drops what the file held.
create_file_with_result(file) == << HeaderLine >>

\* write_result_to_file that opens the file in mode "w"
write_result_to_file_truncating(file, orbit, quat) ==
    << [kind |-> "record",
        cells |-> << Cell("jd", orbit.jd), Cell("x", orbit.x),
                     Cell("y", orbit.y), Cell("z", orbit.z),
                     Cell("vx", orbit.vx), Cell("vy", orbit.vy),
                     Cell("vz", orbit.vz),
                     Cell("q0", At(quat, 0)), Cell("q1", At(quat, 1)),
                     Cell("q2", At(quat, 2)), Cell("q3", At(quat, 3)) >>] >>

\* Simulation.write_result_to_file: mode "a" appends the line.
write_result_to_file(file, orbit, quat) ==
    Append(file,
           [kind |-> "record",
            cells |-> << Cell("jd", orbit.jd), Cell("x", orbit.x),
                         Cell("y", orbit.y), Cell("z", orbit.z),
                         Cell("vx", orbit.vx), Cell("vy", orbit.vy),
                         Cell("vz", orbit.vz),
                         Cell("q0", At(quat, 0)), Cell("q1", At(quat, 1)),
                         Cell("q2", At(quat, 2)), Cell("q3", At(quat, 3)) >>])


---------------------------------------------------------------------------
(* The inputs.                                                             *)

\* Positions have integer coordinates of absolute value up to MaxCoord.
MaxCoord == 2

\* Orbit normals are the unit vectors t / NormalDen with t of integers.
NormalDen == 3

Range3(m) == {<<i, j, k>> : i \in -m..m, j \in -m..m, k \in -m..m}

IntDot(s, t) == s[1] * t[1] + s[2] * t[2] + s[3] * t[3]

IsSquare(n) == SqRoot(n) * SqRoot(n) = n

\* The target is at the origin or beside it.
TargetPositions == { <<0, 0, 0>>, <<1, 0, 0>> }

\* The satellite is at a grid point whose distance to the target is an
\* integer, so that the unit vector y has rational components.
SatPositions(t) ==
    {p \in Range3(MaxCoord) :
        LET dv == <<p[1] - t[1], p[2] - t[2], p[3] - t[3]>>
        IN IntDot(dv, dv) = 0 \/ IsSquare(IntDot(dv, dv))}

UnitTriples == {t \in Range3(NormalDen) : IntDot(t, t) = NormalDen * NormalDen}

\* Unit normals with one component of the size of eps: k * eps / 2.
TinyNormals ==
    UNION {{ <<One, Zero, Mk(1, 1, k, 0, 2)>>, <<Zero, Mk(1, 1, k, 0, 2), One>>,
             <<Mk(1, 1, k, 0, 2), Int2Num(-1), Zero>> } : k \in {-2, -1, 1, 2}}

Normals == {VecOfRats(t, NormalDen) : t \in UnitTriples} \cup TinyNormals

FrameCalls ==
    UNION {{[op |-> "target_frame", r_sat |-> VecOfInts(p),
             r_target |-> VecOfInts(t), orbit_normal |-> n] :
               p \in SatPositions(t), n \in Normals} : t \in TargetPositions}

\* The orthonormal right-handed frames with rows in UnitTriples / NormalDen.
RationalFrames ==
    {<<VecOfRats(x, NormalDen), VecOfRats(y, NormalDen), VecOfRats(z, NormalDen)>> :
       <<x, y, z>> \in
         {f \in UnitTriples \X UnitTriples \X UnitTriples :
            /\ IntDot(f[1], f[2]) = 0
            /\ NormalDen * f[3][1] = f[1][2] * f[2][3] - f[1][3] * f[2][2]
            /\ NormalDen * f[3][2] = f[1][3] * f[2][1] - f[1][1] * f[2][3]
            /\ NormalDen * f[3][3] = f[1][1] * f[2][2] - f[1][2] * f[2][1]}}

\* The frames target_frame builds for a satellite at p, the target at the
\* origin and a normal t / NormalDen orthogonal to p: these are free of
\* radicals.
BuiltFrames ==
    {f \in {target_frame(VecOfInts(pt[1]), VecOfInts(<<0, 0, 0>>),
                         VecOfRats(pt[2], NormalDen)) :
              pt \in {c \in SatPositions(<<0, 0, 0>>) \X UnitTriples :
                        IntDot(c[1], c[1]) # 0 /\ IntDot(c[1], c[2]) = 0}} :
       \A i \in 1..3 : \A j \in 1..3 : IsFinite(f[i][j])}

QuatCalls ==
    {[op |-> "target_quaternion", tf |-> f] : f \in RationalFrames \cup BuiltFrames}

---------------------------------------------------------------------------
(* Calls of the pure functions: call is the pending call with its          *)
(* arguments, ret what came back.                                          *)

VARIABLES call, ret, sims, strict_matrix

vars == <<call, ret, sims, strict_matrix>>

Pending == [status |-> "pending"]

Returned(v) == [status |-> "returned", value |-> v]

Raised(x) == [status |-> "raised", exc |-> x]

CallTargetFrame ==
    /\ call.op = "target_frame"
    /\ ret = Pending
    /\ ret' = Returned(target_frame(call.r_sat, call.r_target,
                                    call.orbit_normal))
    /\ UNCHANGED << call, sims, strict_matrix >>

CallTargetQuaternion ==
    /\ call.op = "target_quaternion"
    /\ ret = Pending
    /\ ret' = Returned(target_quaternion(call.tf))
    /\ UNCHANGED << call, sims, strict_matrix >>

InitFrame ==
    /\ call \in FrameCalls
    /\ ret = Pending
    /\ sims = << >>
    /\ strict_matrix = FALSE

NextFrame == CallTargetFrame

SpecFrame == InitFrame /\ [][NextFrame]_vars

InitQuat ==
    /\ call \in QuatCalls
    /\ ret = Pending
    /\ sims = << >>
    /\ strict_matrix = FALSE

NextQuat == CallTargetQuaternion

SpecQuat == InitQuat /\ [][NextQuat]_vars

---------------------------------------------------------------------------
(* Calls of Orbit._orbit_normal.  An angle of the form k * np.pi / 2 has   *)
(* in doubles a cosine or sine of 1e-16 where the exact one is 0; that is  *)
(* of the size of a rounding error and is 0 here, as every rounding error  *)
(* is.                                                                     *)

\* 0, pi/2, pi and -pi/2
QuarterTurns ==
    {Angle(One, Zero), Angle(Zero, One), Angle(Neg(One), Zero),
     Angle(Zero, Neg(One))}

\* The angles with |cos| = |sin| = 1/sqrt(2), with {|cos|, |sin|} =
\* {1/2, sqrt(3)/2} and with {|cos|, |sin|} = {3/5, 4/5}.
ObliqueAngles ==
    LET half == Div(One, Sqrt(Int2Num(2)))
        tri  == Div(Sqrt(Int2Num(3)), Int2Num(2))
        pairs == { << half, half >>, << Rat(1, 2), tri >>, << tri, Rat(1, 2) >>,
                   << Rat(3, 5), Rat(4, 5) >>, << Rat(4, 5), Rat(3, 5) >> }
    IN {Angle(Mul(Int2Num(sc), p[1]), Mul(Int2Num(ss), p[2])) :
           p \in pairs, sc \in {-1, 1}, ss \in {-1, 1}}

Angles == QuarterTurns \cup ObliqueAngles

\* The states (r, v) with an angular momentum: r x v # 0.
OrbitStates ==
    {st \in Range3(1) \X Range3(MaxCoord) :
        CrossInts(st[1], st[2]) # << 0, 0, 0 >>}

\* _orbit_normal is called on any pair of angles (state is None), or, as
\* Orbit.init and Orbit.step call it, on the elements of a state.
NormalCalls ==
    {[op |-> "orbit_normal", raan |-> raan, inc |-> inc, state |-> None] :
        raan \in Angles, inc \in Angles}
    \cup
    {[op |-> "orbit_normal", raan |-> raan_of(st[1], st[2]),
      inc |-> inc_of(st[1], st[2]), state |-> st] : st \in OrbitStates}

CallOrbitNormal ==
    /\ call.op = "orbit_normal"
    /\ ret = Pending
    /\ ret' = Returned(orbit_normal(call.raan, call.inc))
    /\ UNCHANGED << call, sims, strict_matrix >>

InitNormal ==
    /\ call \in NormalCalls
    /\ ret = Pending
    /\ sims = << >>
    /\ strict_matrix = FALSE

NextNormal == CallOrbitNormal

SpecNormal == InitNormal /\ [][NextNormal]_vars

---------------------------------------------------------------------------
(* Calls of gram_schmidt.  call.matrix is the array object the caller      *)
(* passes and goes on holding; ret.object tells which object came back.    *)

\* The entries of the integer matrices are up to MaxEntry in size.
MaxEntry == 1

IntDet3(m) ==
    m[1][1] * (m[2][2] * m[3][3] - m[2][3] * m[3][2])
    - m[1][2] * (m[2][1] * m[3][3] - m[2][3] * m[3][1])
    + m[1][3] * (m[2][1] * m[3][2] - m[2][2] * m[3][1])

\* Two linearly independent rows of two integers each, and three of three
\* integers each that are not negative.
IndependentRows ==
    {m \in ((-MaxEntry..MaxEntry) \X (-MaxEntry..MaxEntry))
             \X ((-MaxEntry..MaxEntry) \X (-MaxEntry..MaxEntry)) :
        m[1][1] * m[2][2] - m[1][2] * m[2][1] # 0}
    \cup
    {m \in ((0..MaxEntry) \X (0..MaxEntry) \X (0..MaxEntry))
             \X ((0..MaxEntry) \X (0..MaxEntry) \X (0..MaxEntry))
             \X ((0..MaxEntry) \X (0..MaxEntry) \X (0..MaxEntry)) :
        IntDet3(m) # 0}

\* np.array(m) for m of Python ints is of dtype int64, np.array(m, dtype=float)
\* and np.array of floats of dtype float64.
GramArrays ==
    {[dtype |-> d, rows |-> [i \in 1..Len(m) |-> VecOfInts(m[i])]] :
        d \in {"int64", "float64"}, m \in IndependentRows}
    \cup {[dtype |-> "float64", rows |-> f] : f \in RationalFrames}

GramCalls == {[op |-> "gram_schmidt", matrix |-> a] : a \in GramArrays}

\* gram_schmidt(matrix): the rows are written into the argument, and
\* "return matrix" hands the argument back.
CallGramSchmidt ==
    /\ call.op = "gram_schmidt"
    /\ ret = Pending
    /\ call' = [call EXCEPT !.matrix = gram_schmidt_array(call.matrix)]
    /\ ret' = [status |-> "returned",
               value |-> gram_schmidt_array(call.matrix),
               object |-> "argument"]
    /\ UNCHANGED << sims, strict_matrix >>

\* The geometry operations, each called once.
InitGeometry ==
    /\ call \in GramCalls \cup FrameCalls
    /\ ret = Pending
    /\ sims = << >>
    /\ strict_matrix = FALSE

NextGeometry == CallGramSchmidt \/ CallTargetFrame

SpecGeometry == InitGeometry /\ [][NextGeometry]_vars

---------------------------------------------------------------------------
(* Simulation.  sims holds the Simulation objects, each with its own       *)
(* result file; pc is the statement of run the object is at.               *)
(* strict_matrix tells whether the installed Rotation.from_matrix rejects  *)
(* a matrix holding nan with an exception or lets the nan through.         *)

\* simulation_time is up to MaxTime and time_step up to MaxStep seconds or
\* tenths of a second; run is called up to MaxRuns times on one object.
MaxTime == 2
MaxStep == 2
MaxRuns == 2

Denominators == {1, TicksPerSecond}

RunArgs ==
    {[simulation_time |-> Decimal(kt, den), time_step |-> Decimal(kd, den),
      use_perturbation |-> u] :
        kt \in 1..MaxTime, kd \in 1..MaxStep, den \in Denominators,
        u \in BOOLEAN}

\* The default use_perturbation, and steps of tenths of a second.
PairArgs ==
    {a \in RunArgs : a.use_perturbation /\ a.time_step.den = TicksPerSecond}

\* The epochs of the initial state vector.
JulianDays == {0, 1}

\* What the result file may hold before run.
StaleLine == [kind |-> "stale", cells |-> << >>]

OldFiles == { << >>, << StaleLine >> }

\* Simulation.__init__
NewSimulation(julian_day, file) ==
    [params |-> Params(julian_day), file |-> file,
     orbit |-> NoOrbit, tf |-> None, quat |-> None,
     pc |-> "idle", runs |-> 0,
     simulation_time |-> Decimal(0, 1), time_step |-> Decimal(0, 1),
     use_perturbation |-> FALSE,
     i |-> 0, size |-> 0, pbar |-> Double(0, 1)]

\* sim.run(simulation_time, time_step, use_perturbation) is called, for at
\* most the limit-th time on this object, with arguments in args.
Run(s, limit, args) ==
    /\ sims[s].pc \in {"idle", "done", "failed"}
    /\ sims[s].runs < limit
    /\ \E a \in args :
         sims' = [sims EXCEPT ![s] =
                    [@ EXCEPT !.pc = "init_orbit", !.runs = @ + 1,
                              !.simulation_time = a.simulation_time,
                              !.time_step = a.time_step,
                              !.use_perturbation = a.use_perturbation]]
    /\ UNCHANGED << call, ret, strict_matrix >>

\* self.init_orbit()
InitOrbit(s) ==
    /\ sims[s].pc = "init_orbit"
    /\ sims' = [sims EXCEPT ![s] =
                  [@ EXCEPT !.orbit =
                               OrbitInit(sims[s].params.satellite_initial_position_eci),
                            !.pc = "create_file"]]
    /\ UNCHANGED << call, ret, strict_matrix >>

\* self.create_file_with_result(), t_arr and the progress bar
CreateFileWithResult(s) ==
    /\ sims[s].pc = "create_file"
    /\ LET self == sims[s]
           size == arange_size(DoubleAdd(AsDouble(self.simulation_time),
                                         AsDouble(self.time_step)),
                               AsDouble(self.time_step))
       IN sims' = [sims EXCEPT ![s] =
                     [@ EXCEPT !.file = create_file_with_result(self.file),
                               !.size = size, !.i = 0, !.pbar = Double(0, 1),
                               !.pc = IF size > 0 THEN "build" ELSE "done"]]
    /\ UNCHANGED << call, ret, strict_matrix >>

\* self.tf = self.build_target_frame()
BuildTargetFrame(s) ==
    /\ sims[s].pc = "build"
    /\ sims' = [sims EXCEPT ![s] =
                  [@ EXCEPT !.tf = build_target_frame(sims[s]),
                            !.pc = "quat"]]
    /\ UNCHANGED << call, ret, strict_matrix >>

\* self.quat = self.target_quaternion(tf=self.tf)
TargetQuaternion(s) ==
    /\ sims[s].pc = "quat"
    /\ ~ (strict_matrix /\ MatrixHas(sims[s].tf, "nan"))
    /\ sims' = [sims EXCEPT ![s] =
                  [@ EXCEPT !.quat = target_quaternion(sims[s].tf),
                            !.pc = "write"]]
    /\ UNCHANGED << call, ret, strict_matrix >>

\* Rotation.from_matrix raises, and the exception leaves run.
TargetQuaternionRaises(s) ==
    /\ sims[s].pc = "quat"
    /\ strict_matrix /\ MatrixHas(sims[s].tf, "nan")
    /\ sims' = [sims EXCEPT ![s] = [@ EXCEPT !.pc = "failed"]]
    /\ UNCHANGED << call, ret, strict_matrix >>

\* self.write_result_to_file()
WriteResultToFile(s) ==
    /\ sims[s].pc = "write"
    /\ sims' = [sims EXCEPT ![s] =
                  [@ EXCEPT !.file = write_result_to_file(sims[s].file,
                                                          sims[s].orbit,
                                                          sims[s].quat),
                            !.pc = "step"]]
    /\ UNCHANGED << call, ret, strict_matrix >>

\* self.orbit.step(...), pbar.update(time_step) and the next iteration
StepOrbit(s) ==
    /\ sims[s].pc = "step"
    /\ LET self == sims[s]
       IN sims' = [sims EXCEPT ![s] =
                     [@ EXCEPT !.orbit = OrbitStep(self.orbit, self.time_step,
                                                   self.use_perturbation),
                               !.pbar = IF self.i < self.size - 1
                                        THEN DoubleAdd(@, AsDouble(self.time_step))
                                        ELSE @,
                               !.i = @ + 1,
                               !.pc = IF self.i + 1 < self.size
                                      THEN "build" ELSE "done"]]
    /\ UNCHANGED << call, ret, strict_matrix >>

NoCall == [op |-> "none"]

\* One Simulation, run up to MaxRuns times.
Init ==
    /\ \E julian_day \in JulianDays, file \in OldFiles :
         sims = << NewSimulation(julian_day, file) >>
    /\ strict_matrix \in BOOLEAN
    /\ call = NoCall
    /\ ret = Pending

Next ==
    \/ Run(1, MaxRuns, RunArgs)
    \/ InitOrbit(1)
    \/ CreateFileWithResult(1)
    \/ BuildTargetFrame(1)
    \/ TargetQuaternion(1)
    \/ TargetQuaternionRaises(1)
    \/ WriteResultToFile(1)
    \/ StepOrbit(1)

Spec == Init /\ [][Next]_vars

\* Two Simulations with the same target, each run once with arguments in
\* PairArgs.  They share nothing but the installed library.
InitPair ==
    /\ \E j1 \in JulianDays, j2 \in JulianDays :
         sims = << NewSimulation(j1, << >>), NewSimulation(j2, << >>) >>
    /\ strict_matrix \in BOOLEAN
    /\ call = NoCall
    /\ ret = Pending

NextPair ==
    \E s \in 1..2 :
       \/ Run(s, 1, PairArgs)
       \/ InitOrbit(s)
       \/ CreateFileWithResult(s)
       \/ BuildTargetFrame(s)
       \/ TargetQuaternion(s)
       \/ TargetQuaternionRaises(s)
       \/ WriteResultToFile(s)
       \/ StepOrbit(s)

SpecPair == InitPair /\ [][NextPair]_vars

---------------------------------------------------------------------------
(* What the claims speak of.                                               *)

\* 1e-8, the absolute tolerance of np.isclose and np.allclose.  Their
\* relative term (1e-5 of the second argument) is left out: Close is the
\* stricter test.
atol == EpsTimes(10)

Close(a, b) == LessEq(AbsNum(Sub(a, b)), atol)

VClose(u, v) == \A i \in 1..Len(u) : Close(u[i], v[i])

VFinite(v) == \A i \in 1..Len(v) : IsFinite(v[i])

IsNaN(a) == a.k = "nan"

HasUnrep(m) == \E i \in 1..Len(m) : \E j \in 1..Len(m[i]) : m[i][j] = Unrep

\* The rows of a frame.
RowX(f) == At(f, 0)
RowY(f) == At(f, 1)
RowZ(f) == At(f, 2)

\* The OrthonormalFrame invariants, as tests/test_frames.py asserts them.
Orthonormal(f) ==
    /\ Close(One, Norm(RowX(f)))
    /\ Close(One, Norm(RowY(f)))
    /\ Close(One, Norm(RowZ(f)))
    /\ Close(Zero, Dot(RowX(f), RowY(f)))
    /\ Close(Zero, Dot(RowX(f), RowZ(f)))
    /\ Close(Zero, Dot(RowY(f), RowZ(f)))
    /\ VClose(RowX(f), Cross(RowY(f), RowZ(f)))
    /\ VClose(RowY(f), Cross(RowZ(f), RowX(f)))
    /\ VClose(RowZ(f), Cross(RowX(f), RowY(f)))
    /\ Close(One, Det(f))

CallY == tf_y(call.r_sat, call.r_target)

\* n is parallel or antiparallel to y: the plane coefficients all vanish.
NormalAlongY ==
    /\ IsZero(tf_a(CallY, call.orbit_normal))
    /\ IsZero(tf_b(CallY, call.orbit_normal))
    /\ IsZero(tf_c(CallY, call.orbit_normal))

NonDegenerate ==
    /\ call.op = "target_frame"
    /\ call.r_sat # call.r_target
    /\ Dot(call.orbit_normal, call.orbit_normal) = One
    /\ ~NormalAlongY

FrameReturned == call.op = "target_frame" /\ ret.status = "returned"

\* The model's arithmetic represents every value the calls produce.
NoUnrep == FrameReturned => ~HasUnrep(ret.value)

---------------------------------------------------------------------------
(* The claims on target_frame, under SpecFrame.                            *)

FrameFinite(f) == \A i \in 1..Len(f) : VFinite(f[i])

\* C1: for every input with r_sat # r_target and a unit n not along
\* r_sat - r_target, the rows X, Y, Z of the returned frame are of unit
\* norm, pairwise orthogonal and right-handed, with determinant 1.
C1_OrthonormalFrame ==
    (FrameReturned /\ NonDegenerate) => Orthonormal(ret.value)

\* C2: for every non-degenerate input the row Y of the returned frame is
\* normalize(r_sat - r_target): gram_schmidt, applied to the rows in the
\* order Y, X, Z, leaves the Y that np.vstack received unchanged, and the
\* rows come back in the order X, Y, Z (Y is the middle row, and X is
\* Y x Z whenever the frame is finite).
C2_YAxisKept ==
    (FrameReturned /\ NonDegenerate) =>
        /\ VClose(RowY(ret.value), CallY)
        /\ RowY(ret.value)
             = RowY(tf_axes(call.r_sat, call.r_target, call.orbit_normal))
        /\ FrameFinite(ret.value) =>
             VClose(RowX(ret.value), Cross(RowY(ret.value), RowZ(ret.value)))

\* C2, its case: a non-degenerate call has returned a finite frame whose
\* row Z gram_schmidt has changed, and whose row Y is still y.
C2_Witness ==
    /\ FrameReturned
    /\ NonDegenerate
    /\ FrameFinite(ret.value)
    /\ RowZ(ret.value)
         # RowZ(tf_axes(call.r_sat, call.r_target, call.orbit_normal))
    /\ RowY(ret.value) = CallY

\* C3: for every non-degenerate input the row Z of the returned frame has
\* dot(Z, n) < 0.
C3_ZAwayFromNormal ==
    (FrameReturned /\ NonDegenerate) =>
        Less(Dot(RowZ(ret.value), call.orbit_normal), Zero)

\* C4: for every non-degenerate input the rows Y and Z of the returned
\* frame are coplanar with n: det([Y; Z; n]) = 0 within tolerance.
C4_Coplanar ==
    (FrameReturned /\ NonDegenerate) =>
        Close(Zero, Det(<< RowY(ret.value), RowZ(ret.value),
                           call.orbit_normal >>))

\* C6: when r_sat = r_target, target_frame raises DegenerateGeometryError
\* and returns no frame.
C6_CoincidentRaises ==
    (call.op = "target_frame" /\ call.r_sat = call.r_target /\ ret # Pending)
        => ret = Raised("DegenerateGeometryError")

\* C7: when n is parallel or antiparallel to y (a = b = c = 0),
\* target_frame raises DegenerateGeometryError instead of returning a frame.
C7_NormalAlongYRaises ==
    (call.op = "target_frame" /\ call.r_sat # call.r_target /\ NormalAlongY
       /\ ret # Pending)
        => ret = Raised("DegenerateGeometryError")

\* C8: for every non-degenerate input neither denominator, a*y1 - b*y0 or
\* a + eps, is zero, and every component of the returned frame is finite.
C8_TotalAndFinite ==
    (FrameReturned /\ NonDegenerate) =>
        /\ ~IsZero(tf_den(CallY, call.orbit_normal))
        /\ ~IsZero(tf_aeps(CallY, call.orbit_normal))
        /\ FrameFinite(ret.value)

---------------------------------------------------------------------------
(* The claim on target_quaternion, under SpecQuat.                         *)

\* The Hamilton product of two quaternions (w, x, y, z).
QuatMul(p, q) ==
    << Sub(Sub(Sub(Mul(At(p, 0), At(q, 0)), Mul(At(p, 1), At(q, 1))),
               Mul(At(p, 2), At(q, 2))), Mul(At(p, 3), At(q, 3))),
       Sub(Add(Add(Mul(At(p, 0), At(q, 1)), Mul(At(p, 1), At(q, 0))),
               Mul(At(p, 2), At(q, 3))), Mul(At(p, 3), At(q, 2))),
       Add(Add(Sub(Mul(At(p, 0), At(q, 2)), Mul(At(p, 1), At(q, 3))),
               Mul(At(p, 2), At(q, 0))), Mul(At(p, 3), At(q, 1))),
       Add(Sub(Add(Mul(At(p, 0), At(q, 3)), Mul(At(p, 1), At(q, 2))),
               Mul(At(p, 2), At(q, 1))), Mul(At(p, 3), At(q, 0))) >>

QuatConj(q) == << At(q, 0), Neg(At(q, 1)), Neg(At(q, 2)), Neg(At(q, 3)) >>

\* The rotation of the vector v by the scalar-first quaternion q, as the
\* test computes it: the vector part of q * (0, v) * conj(q).
Rotate(q, v) ==
    LET r == QuatMul(QuatMul(q, << Zero, v[1], v[2], v[3] >>), QuatConj(q))
    IN << At(r, 1), At(r, 2), At(r, 3) >>

QuatReturned == call.op = "target_quaternion" /\ ret.status = "returned"

\* C5: for every orthonormal right-handed frame tf, target_quaternion(tf)
\* is a quaternion of unit norm, scalar first, and rotating (1,0,0),
\* (0,1,0), (0,0,1) by it gives the rows X, Y, Z of tf.
C5_QuaternionRotatesBasis ==
    (QuatReturned /\ Orthonormal(call.tf)) =>
        /\ Close(One, Norm(ret.value))
        /\ VClose(RowX(call.tf), Rotate(ret.value, VecOfInts(<<1, 0, 0>>)))
        /\ VClose(RowY(call.tf), Rotate(ret.value, VecOfInts(<<0, 1, 0>>)))
        /\ VClose(RowZ(call.tf), Rotate(ret.value, VecOfInts(<<0, 0, 1>>)))

\* C5, its case: the quaternion of an orthonormal frame that is not its
\* own transpose has been returned, with a scalar part that is not zero.
C5_Witness ==
    /\ QuatReturned
    /\ Orthonormal(call.tf)
    /\ call.tf # Transpose(call.tf)
    /\ ~IsZero(At(ret.value, 0))
    /\ VFinite(ret.value)

---------------------------------------------------------------------------
(* The claims on Simulation.run, under SpecPair and Spec.                  *)

\* The orbit snapshot a step reads: position, epoch and normal.
Snapshot(self) ==
    << self.orbit.x, self.orbit.y, self.orbit.z, self.orbit.jd, self.orbit.dt,
       self.orbit.normal >>

\* self.tf is the frame of the current step; self.quat its quaternion.
HasFrame(self) == self.pc \in {"quat", "write"}

HasQuat(self) == self.pc = "write"

SameSnapshot(a, b) ==
    /\ Snapshot(a) = Snapshot(b)
    /\ a.params.earth_target = b.params.earth_target

\* C9: two Simulations that are in a step with the same orbit snapshot
\* (position, epoch, normal) and the same target hold the same frame and,
\* once it is computed, the same quaternion, whatever came before: the
\* initial epoch, the number of earlier steps, the earlier values of
\* self.tf and self.quat.
C9_StepDependsOnSnapshotOnly ==
    \A s1 \in DOMAIN sims : \A s2 \in DOMAIN sims :
       (HasFrame(sims[s1]) /\ HasFrame(sims[s2])
          /\ SameSnapshot(sims[s1], sims[s2])) =>
            /\ sims[s1].tf = sims[s2].tf
            /\ (HasQuat(sims[s1]) /\ HasQuat(sims[s2])) =>
                  sims[s1].quat = sims[s2].quat

\* C9, its case: the first Simulation is in its first step (self.tf and
\* self.quat were None before it), the second has earlier steps behind it
\* (self.tf and self.quat held their frame and quaternion), both have
\* computed frame and quaternion from the same snapshot, and the frame is
\* finite.
C9_Witness ==
    /\ Len(sims) = 2
    /\ HasQuat(sims[1]) /\ HasQuat(sims[2])
    /\ SameSnapshot(sims[1], sims[2])
    /\ sims[1].i = 0
    /\ sims[2].i > 0
    /\ FrameFinite(sims[1].tf)
    /\ VFinite(sims[2].quat)

\* C10: when run has returned, the result file is one header line followed
\* by one record line per step of the loop, the n-th of them bearing the
\* epoch of the n-th step, and nothing of what the file held before; when
\* simulation_time is an integer multiple of time_step the records are
\* simulation_time / time_step + 1.
C10_ResultFile ==
    \A s \in DOMAIN sims :
       sims[s].pc = "done" =>
          /\ Len(sims[s].file) = 1 + sims[s].i
          /\ sims[s].file[1].kind = "header"
          /\ \A n \in 1..sims[s].i :
                /\ sims[s].file[n + 1].kind = "record"
                /\ sims[s].file[n + 1].cells[1].value
                     = Int2Num(sims[s].params.satellite_initial_position_eci.julian_day
                               + (n - 1) * Ticks(sims[s].time_step))
          /\ (sims[s].simulation_time.k % sims[s].time_step.k = 0) =>
                Len(sims[s].file) - 1
                  = sims[s].simulation_time.k \div sims[s].time_step.k + 1

\* The names the C11 claim gives the eleven columns.
FieldNames ==
    << "jd", "x", "y", "z", "vx", "vy", "vz", "q0", "q1", "q2", "q3" >>

\* C11: in every result file the header has eleven names, the claim's
\* eleven, and the name at each position is the name of the attribute that
\* every record holds at that position.
C11_HeaderNamesColumns ==
    \A s \in DOMAIN sims :
       \A n \in 1..Len(sims[s].file) :
          sims[s].file[n].kind = "record" =>
             /\ sims[s].file[1].kind = "header"
             /\ sims[s].file[1].cells = FieldNames
             /\ Len(sims[s].file[n].cells) = Len(sims[s].file[1].cells)
             /\ \A p \in 1..Len(sims[s].file[n].cells) :
                   sims[s].file[n].cells[p].name = sims[s].file[1].cells[p]

\* The epoch of the orbit of self after k propagation steps of the run.
EpochAfter(self, k) ==
    self.params.satellite_initial_position_eci.julian_day
      + k * Ticks(self.time_step)

\* The attributes of self.orbit are those of one state: the state vector
\* and the epoch of the trajectory at epoch, and the normal of that state.
IsStateAt(orbit, epoch) ==
    /\ << orbit.x, orbit.y, orbit.z >> = VecOfInts(Ephemeris(epoch).r)
    /\ << orbit.vx, orbit.vy, orbit.vz >> = VecOfInts(Ephemeris(epoch).v)
    /\ orbit.jd = Int2Num(epoch)
    /\ orbit.dt = epoch
    /\ orbit.normal = orbit_normal(raan_of(Ephemeris(epoch).r, Ephemeris(epoch).v),
                                   inc_of(Ephemeris(epoch).r, Ephemeris(epoch).v))

\* The frame of the state at epoch, as build_target_frame is to build it.
FrameAt(self, epoch) ==
    target_frame(VecOfInts(Ephemeris(epoch).r),
                 lla_to_eci(self.params.earth_target.latitude,
                            self.params.earth_target.longitude,
                            self.params.earth_target.altitude, epoch),
                 orbit_normal(raan_of(Ephemeris(epoch).r, Ephemeris(epoch).v),
                              inc_of(Ephemeris(epoch).r, Ephemeris(epoch).v)))

\* The record line holds jd, position and velocity of the state at epoch
\* and the quaternion of the frame of that state.
IsRecordAt(self, line, epoch) ==
    /\ line.kind = "record"
    /\ << line.cells[1].value >> = << Int2Num(epoch) >>
    /\ << line.cells[2].value, line.cells[3].value, line.cells[4].value >>
         = VecOfInts(Ephemeris(epoch).r)
    /\ << line.cells[5].value, line.cells[6].value, line.cells[7].value >>
         = VecOfInts(Ephemeris(epoch).v)
    /\ << line.cells[8].value, line.cells[9].value, line.cells[10].value,
          line.cells[11].value >> = target_quaternion(FrameAt(self, epoch))

\* The records the current run has written.
RecordsWritten(self) == IF self.pc = "step" THEN self.i + 1 ELSE self.i

\* C15: in every iteration of run, self.orbit is one state, the state
\* after self.i propagation steps: position, velocity, epoch and normal
\* are refreshed together by Orbit.init and Orbit.step.  The frame is built
\* from that state, it is still the state of the orbit when the
\* quaternion is computed and when the record is written, and the k-th
\* record of the file (k from 0) holds jd, position, velocity and
\* quaternion of the state after exactly k steps.
C15_OneOrbitState ==
    \A s \in DOMAIN sims :
       LET self == sims[s]
       IN /\ self.pc \in {"build", "quat", "write", "step"} =>
                IsStateAt(self.orbit, EpochAfter(self, self.i))
          /\ self.pc \in {"quat", "write"} =>
                self.tf = FrameAt(self, EpochAfter(self, self.i))
          /\ self.pc = "write" => self.quat = target_quaternion(self.tf)
          /\ self.pc \in {"build", "quat", "write", "step", "done", "failed"} =>
                /\ Len(self.file) = 1 + RecordsWritten(self)
                /\ \A k \in 0..(RecordsWritten(self) - 1) :
                      IsRecordAt(self, self.file[k + 2], EpochAfter(self, k))

\* C15, its case: the record of an iteration after the first has been
\* written, the normal and the position of the orbit are no longer those of
\* the initial state, and the frame of the iteration is finite.
C15_Witness ==
    /\ Len(sims) = 1
    /\ sims[1].pc = "step"
    /\ sims[1].i >= 1
    /\ sims[1].orbit.normal # OrbitInit(sims[1].params.satellite_initial_position_eci).normal
    /\ sims[1].orbit.x # OrbitInit(sims[1].params.satellite_initial_position_eci).x
    /\ FrameFinite(sims[1].tf)

\* C17: the k-th record of a run (k from 0) is for the simulation time
\* k * time_step, which does not exceed simulation_time, and when run has
\* returned the progress bar stands at simulation_time: its updates sum to
\* exactly that.
C17_TimesWithinRun ==
    \A s \in DOMAIN sims :
       LET self == sims[s]
       IN /\ self.pc \in {"build", "quat", "write", "step", "done", "failed"} =>
                \A k \in 0..(RecordsWritten(self) - 1) :
                   /\ self.file[k + 2].cells[1].value
                        = Int2Num(EpochAfter(self, k))
                   /\ k * self.time_step.k <= self.simulation_time.k
          /\ self.pc = "done" =>
                DoubleCmp(self.pbar, AsDouble(self.simulation_time)) = 0

---------------------------------------------------------------------------
(* The claims on Orbit._orbit_normal, under SpecNormal.                    *)

NormalReturned == call.op = "orbit_normal" /\ ret.status = "returned"

\* C12: the vector _orbit_normal returns is Rz(raan) * Rx(inc) * (0,0,1),
\* that is (sin raan * sin inc, -cos raan * sin inc, cos inc); it is
\* (0,0,1) for inc = 0 and (0,0,-1) for inc = pi whatever raan is,
\* (0,-1,0) for raan = 0, inc = pi/2 and (0,1,0) for raan = 0, inc = -pi/2.
C12_OrbitNormalValues ==
    NormalReturned =>
       /\ VClose(ret.value, << Mul(call.raan.sin, call.inc.sin),
                               Neg(Mul(call.raan.cos, call.inc.sin)),
                               call.inc.cos >>)
       /\ call.inc = Angle(One, Zero) => VClose(ret.value, VecOfInts(<< 0, 0, 1 >>))
       /\ call.inc = Angle(Neg(One), Zero) =>
             VClose(ret.value, VecOfInts(<< 0, 0, -1 >>))
       /\ (call.raan = Angle(One, Zero) /\ call.inc = Angle(Zero, One)) =>
             VClose(ret.value, VecOfInts(<< 0, -1, 0 >>))
       /\ (call.raan = Angle(One, Zero) /\ call.inc = Angle(Zero, Neg(One))) =>
             VClose(ret.value, VecOfInts(<< 0, 1, 0 >>))

\* C12, its case: the call with raan = 0 and inc = pi/2 has returned.
C12_Witness ==
    /\ NormalReturned
    /\ call.raan = Angle(One, Zero)
    /\ call.inc = Angle(Zero, One)
    /\ VFinite(ret.value)

\* C13: the vector _orbit_normal returns has norm 1 for every pair of
\* angles, and when the angles are the elements of a state (r, v) it is
\* orthogonal to r and to v.
C13_UnitAndOrthogonal ==
    NormalReturned =>
       /\ Close(One, Norm(ret.value))
       /\ call.state # None =>
             /\ Close(Zero, Dot(VecOfInts(call.state[1]), ret.value))
             /\ Close(Zero, Dot(VecOfInts(call.state[2]), ret.value))

\* C13, its case: the call on the elements of a state whose orbit is
\* neither equatorial nor polar, with its node off the x axis, has returned.
C13_Witness ==
    /\ NormalReturned
    /\ call.state # None
    /\ ~IsZero(call.inc.sin) /\ ~IsZero(call.inc.cos)
    /\ ~IsZero(call.raan.sin) /\ ~IsZero(call.raan.cos)
    /\ VFinite(ret.value)

---------------------------------------------------------------------------
(* The claims on gram_schmidt and on the arguments of the geometry         *)
(* operations, under SpecGeometry.                                         *)

\* The step in which gram_schmidt returns.
GramSchmidtReturns ==
    call.op = "gram_schmidt" /\ ret = Pending /\ ret'.status = "returned"

\* The step in which target_frame returns.
TargetFrameReturns ==
    call.op = "target_frame" /\ ret = Pending /\ ret'.status = "returned"

RowsOrthonormal(rows) ==
    \A i \in 1..Len(rows) : \A j \in 1..Len(rows) :
       Close(IF i = j THEN One ELSE Zero, Dot(rows[i], rows[j]))

\* Row i of the input less its projections on the rows before i of the
\* output, normalised.
LessProjections(input, output, i) ==
    Normalized([c \in 1..Len(input[i]) |->
                  Sub(input[i][c],
                      SumTo([j \in 1..(i - 1) |->
                               Mul(Dot(output[j], input[i]), output[j][c])],
                            i - 1))])

\* What C14 says of the rows passed and the rows returned.
IsGramSchmidtOf(input, output) ==
    /\ Len(output) = Len(input)
    /\ RowsOrthonormal(output)
    /\ \A i \in 1..Len(input) :
          VClose(output[i], LessProjections(input, output, i))
    /\ VClose(output[1], Normalized(input[1]))
    /\ RowsOrthonormal(input) =>
          \A i \in 1..Len(input) : VClose(output[i], input[i])

\* C14: when gram_schmidt returns from a call on n linearly independent
\* rows, the rows returned are n unit vectors orthogonal to each other, the
\* i-th of them is the i-th row passed less its projections on the rows
\* returned before it, normalised, the first is the first row passed
\* normalised, and orthonormal rows come back as they were.
C14_GramSchmidt ==
    [][GramSchmidtReturns =>
         IsGramSchmidtOf(call.matrix.rows, ret'.value.rows)]_vars

\* C16: gram_schmidt leaves the array passed to it as it was and returns
\* another object; target_frame leaves r_sat, r_target and orbit_normal as
\* they were.
C16_ArgumentsUnchanged ==
    [][/\ GramSchmidtReturns =>
             /\ call'.matrix = call.matrix
             /\ ret'.object # "argument"
       /\ TargetFrameReturns =>
             /\ call'.r_sat = call.r_sat
             /\ call'.r_target = call.r_target
             /\ call'.orbit_normal = call.orbit_normal]_vars

=============================================================================
